---- MODULE Spec2Model ----
(***************************************************************************)
(* Model of the two question-answering bots of the repository:             *)
(*   src/jfk_semantic_bot.py  (chunker, thread-pool ingestion, retrieval,  *)
(*                             single-model generation, session loop)      *)
(*   src/faq_semantic_bot.py  (serial ingestion, retrieval, three-model    *)
(*                             generation cascade, session loop)           *)
(* The Vector Store and the Text Generation Service are the environment:   *)
(* each of their calls ends in one of the outcomes the client library can  *)
(* hand back (a result, or an exception).                                  *)
(*                                                                         *)
(* A Python str is a run-length encoded sequence of <<char, count>> pairs  *)
(* in canonical form (no empty run, no two adjacent runs of one char), so  *)
(* that the program's own constants (4000, 300) are kept as they are.      *)
(* An optional value is <<>> (None) or <<v>>.                              *)
(***************************************************************************)
EXTENDS Integers, Sequences, FiniteSets, TLC

\* ------------------------------------------------------------------ bounds
\* Number of lines of the corpus file.
MaxLines == 2
\* Values os.cpu_count() may return.
MaxCpu == 2
\* Number of lines of the texts the chunker is applied to on its own.
MaxChunkLines == 3

\* ---------------------------------------------------------- str operations
None == <<>>
Some(v) == <<v>>
\* The value of a call that has not returned.
NotReturned == <<"not returned">>

\* Characters str.strip() removes.
Whitespace == {" ", "\n"}

T(c, n) == << <<c, n>> >>
NL == T("\n", 1)

RECURSIVE StrLen(_)
\* len(s)
StrLen(s) == IF s = <<>> THEN 0 ELSE s[1][2] + StrLen(Tail(s))

\* s + t
Concat(s, t) ==
    IF s = <<>> THEN t
    ELSE IF t = <<>> THEN s
    ELSE IF s[Len(s)][1] = t[1][1]
         THEN SubSeq(s, 1, Len(s) - 1)
                \o << <<t[1][1], s[Len(s)][2] + t[1][2]>> >>
                \o Tail(t)
         ELSE s \o t

RECURSIVE Join(_)
\* "".join(parts)
Join(parts) == IF parts = <<>> THEN <<>> ELSE Concat(parts[1], Join(Tail(parts)))

RECURSIVE LStrip(_)
LStrip(s) == IF s # <<>> /\ s[1][1] \in Whitespace THEN LStrip(Tail(s)) ELSE s

RECURSIVE RStrip(_)
RStrip(s) ==
    IF s # <<>> /\ s[Len(s)][1] \in Whitespace
    THEN RStrip(SubSeq(s, 1, Len(s) - 1))
    ELSE s

\* s.strip()
Strip(s) == RStrip(LStrip(s))

RECURSIVE Take(_, _)
\* s[:k]
Take(s, k) ==
    IF s = <<>> \/ k <= 0 THEN <<>>
    ELSE IF s[1][2] >= k THEN << <<s[1][1], k>> >>
    ELSE Concat(<< s[1] >>, Take(Tail(s), k - s[1][2]))

LowerChar(c) ==
    CASE c = "E" -> "e" [] c = "X" -> "x" [] c = "I" -> "i" [] c = "T" -> "t"
      [] c = "Q" -> "q" [] c = "U" -> "u" [] OTHER -> c

\* s.lower()
Lower(s) == Join([i \in 1..Len(s) |-> << <<LowerChar(s[i][1]), s[i][2]>> >>])

\* Mutant of Truthy: the test is `is not None`.
Truthy_NotNone(x) == x # None

\* bool(x) of an optional str: None and "" are false.
Truthy(x) == x # None /\ x[1] # <<>>

Min(a, b) == IF a <= b THEN a ELSE b

\* --------------------------------------------------------------- constants
CHARS_PER_CHUNK == 4000
PreviewChars == 300
MaxPoolThreads == 32

Bots == {"jfk", "faq"}

ExitTokens == { T("e", 1) \o T("x", 1) \o T("i", 1) \o T("t", 1),
                T("q", 1) \o T("u", 1) \o T("i", 1) \o T("t", 1) }

\* FAQ_DATA: the five entries of the FAQ corpus.
FAQ_DATA == <<
    [question |-> "How do I reset my password?",
     answer |-> "Go to your account settings, click 'Reset Password', and follow the instructions sent to your email.",
     category |-> "account"],
    [question |-> "How can I contact support?",
     answer |-> "You can contact support via the chat widget or by emailing support@example.com.",
     category |-> "support"],
    [question |-> "What payment methods are accepted?",
     answer |-> "We accept Visa, Mastercard, PayPal, and Apple Pay.",
     category |-> "billing"],
    [question |-> "How do I delete my account?",
     answer |-> "Please email support@example.com with your request to delete your account.",
     category |-> "account"],
    [question |-> "Can I change my subscription plan?",
     answer |-> "Yes, you can change your subscription anytime from the billing page in your dashboard.",
     category |-> "billing"] >>

\* The candidate models of generate_answer, in the order they are tried.
Models(b) == IF b = "faq" THEN <<"gpt-4o-mini", "gpt-4o", "gpt-3.5-turbo">>
                          ELSE <<"gpt-4o-mini">>

\* ------------------------------------------------------------------ chunker
\* Mutant of NormaliseLine: a blank line is kept as it is.
NormaliseLine_Keep(line) == line

\* `if line.strip() == "": line = "\n"`: a blank line becomes a bare terminator.
NormaliseLine(line) == IF Strip(line) = <<>> THEN NL ELSE line

\* Mutant of Overflows: a buffer that would be exactly full is sealed too.
Overflows_GE(curr_len, line, max_chars) == curr_len + StrLen(line) >= max_chars

\* Mutant of Overflows: the buffer is tested before the line is counted.
Overflows_Before(curr_len, line, max_chars) == curr_len > max_chars

\* `if curr_len + len(line) > CHARS_PER_CHUNK`
Overflows(curr_len, line, max_chars) == curr_len + StrLen(line) > max_chars

\* Mutant of Seal: only the last line of the buffer is kept (curr[-1]).
Seal_Last(curr) == IF curr = <<>> THEN <<>> ELSE Strip(curr[Len(curr)])

\* "".join(curr).strip(): the text of the chunk the buffer is sealed as.
Seal(curr) == Strip(Join(curr))

\* Mutant of NewBuffer: the buffer is emptied and the line is lost.
NewBuffer_Empty(line) == <<>>

\* `curr = [line]`: the buffer after a seal.
NewBuffer(line) == <<line>>

\* Mutant of SealRest: the last buffer is sealed without the `if curr:` test.
SealRest_NoTest(chunks_, curr) == Append(chunks_, Seal(curr))

\* Mutant of SealRest: the last buffer is never sealed.
SealRest_Drop(chunks_, curr) == chunks_

\* `if curr: chunks.append(...)` at the end of the file.
SealRest(chunks_, curr) == IF curr # <<>> THEN Append(chunks_, Seal(curr)) ELSE chunks_

RECURSIVE ReadLoop(_, _, _, _, _)
\* The loop of _read_chunks over the lines still to read.
ReadLoop(lines, chunks_, curr, curr_len, max_chars) ==
    IF lines = <<>>
    THEN SealRest(chunks_, curr)
    ELSE LET line == NormaliseLine(lines[1])
         IN  IF Overflows(curr_len, line, max_chars)
             THEN ReadLoop(Tail(lines), Append(chunks_, Seal(curr)),
                           NewBuffer(line), StrLen(line), max_chars)
             ELSE ReadLoop(Tail(lines), chunks_, Append(curr, line),
                           curr_len + StrLen(line), max_chars)

\* _read_chunks on a file holding `lines` (each with its line terminator).
ReadChunks(lines, max_chars) == ReadLoop(lines, <<>>, <<>>, 0, max_chars)

\* ------------------------------------------------------------- environment
\* Lines the corpus file is made of: a short line with blanks around its
\* text, a blank line, a line of exactly CHARS_PER_CHUNK characters and a
\* line longer than CHARS_PER_CHUNK.
ShortLine == T(" ", 1) \o T("a", 1) \o NL
FullLine == T("a", CHARS_PER_CHUNK - 1) \o NL
LongLine == T("a", CHARS_PER_CHUNK) \o NL
LinePool == {ShortLine, NL, FullLine, LongLine}

RECURSIVE SeqsUpTo(_, _)
SeqsUpTo(S, n) ==
    IF n = 0 THEN {<<>>}
    ELSE LET prev == SeqsUpTo(S, n - 1)
         IN  prev \cup {Append(p, x) : p \in {q \in prev : Len(q) = n - 1}, x \in S}

\* One paragraph of 9000 characters: as nine lines of 1000 characters, as a
\* single line, and as four lines of 2001 characters followed by one of 996.
NineLines == [i \in 1..9 |-> T("a", 999) \o NL]
OneLine == << T("a", 9000) >>
UnevenLines == [i \in 1..4 |-> T("a", 2000) \o NL] \o << T("a", 996) >>
Paragraphs == {NineLines, OneLine, UnevenLines}

Files == SeqsUpTo(LinePool, MaxLines) \cup Paragraphs

\* TXT_FILE holding `lines`, and TXT_FILE missing.
TextFile(lines) == [exists |-> TRUE, lines |-> lines]
NoFile == [exists |-> FALSE, lines |-> <<>>]

\* A record left in the collection by an earlier run.
StaleRecord(b) ==
    [uuid |-> 0,
     obj |-> IF b = "faq"
             THEN [question |-> "stale question", answer |-> "stale answer",
                   category |-> "stale"]
             ELSE [text |-> T("z", 1), chunk_id |-> <<"part2", 0>>]]

VARIABLES
    bot,            \* which script runs
    txt_file,       \* TXT_FILE on disk: whether it exists, and its lines
    pc,             \* position of the main thread
    end_cause,      \* why main() ended
    exists,         \* Vector Store: the collection exists
    store,          \* Vector Store: the objects of the collection
    store_failed,   \* Vector Store: a setup or insert call of this run has failed
    uuid_count,     \* uuid4() values handed out so far
    chunks,         \* ingest_docs: the chunk list
    workers,        \* ingest_docs: max_workers of the pool
    submitted,      \* ingest_docs: tasks submitted so far
    futures,        \* ingest_docs: idx -> state of the task's future
    queue,          \* executor: work items waiting for a thread
    inflight,       \* executor: tasks a pool thread is running
    yielded,        \* ingest_docs: futures as_completed has handed out
    insert_calls,   \* Vector Store: insert requests received, per item
    faq_idx,        \* ingest_faqs: loop position (1-based)
    ingest_result,  \* what ingest_docs / ingest_faqs returned
    line_in,        \* session: what input() returned in the turn
    user_q,         \* session: the stripped input line of the turn
    doc,            \* session: what semantic_search returned
    model_idx,      \* generate_answer: position in the model list
    prompt,         \* generate_answer: the prompt
    answer,         \* session: what generate_answer returned
    search_log,     \* nearest-neighbour requests issued in the turn
    gen_log,        \* completion requests issued in the turn, with outcome
    shown           \* what the turn printed

pool_vars == <<chunks, workers, submitted, futures, queue, inflight, yielded,
               insert_calls>>
turn_vars == <<line_in, user_q, doc, model_idx, prompt, answer, search_log, gen_log, shown>>
vars == <<bot, txt_file, store_failed, pc, end_cause, exists, store, uuid_count, pool_vars, faq_idx,
          ingest_result, turn_vars>>

Init ==
    /\ bot \in Bots
    /\ txt_file \in IF bot = "jfk" THEN {TextFile(f) : f \in Files} \cup {NoFile}
                                  ELSE {NoFile}
    /\ pc = "connect"
    /\ end_cause = "none"
    /\ exists \in BOOLEAN
    /\ store = IF exists THEN {StaleRecord(bot)} ELSE {}
    /\ store_failed = FALSE
    /\ uuid_count = 0
    /\ chunks = <<>>
    /\ workers = 0
    /\ submitted = 0
    /\ futures = <<>>
    /\ queue = <<>>
    /\ inflight = {}
    /\ yielded = {}
    /\ insert_calls = <<>>
    /\ faq_idx = 1
    /\ ingest_result = NotReturned
    /\ line_in = <<>>
    /\ user_q = <<>>
    /\ doc = None
    /\ model_idx = 0
    /\ prompt = <<>>
    /\ answer = None
    /\ search_log = <<>>
    /\ gen_log = <<>>
    /\ shown = <<>>

\* ------------------------------------------------------- connect and setup
\* connect(): the client is ready, is not ready (sys.exit(1)), or its
\* constructor raises (jfk: uncaught; faq: returns None, and setup_collection
\* then finds no schema interface and calls sys.exit(1)).
Connect(outcome) ==
    /\ pc = "connect"
    /\ \/ /\ outcome = "ready"
          /\ pc' = "setup"
          /\ UNCHANGED end_cause
       \/ /\ outcome = "not_ready"
          /\ pc' = "exited"
          /\ end_cause' = "sys_exit"
       \/ /\ outcome = "raise"
          /\ pc' = IF bot = "faq" THEN "exited" ELSE "crashed"
          /\ end_cause' = IF bot = "faq" THEN "sys_exit" ELSE "startup_error"
    /\ UNCHANGED <<bot, txt_file, store_failed, exists, store, uuid_count, pool_vars, faq_idx,
                   ingest_result, turn_vars>>

\* Mutant of SetupCollection: the class is never deleted and create_class
\* accepts a class that is already there.
SetupCollection_KeepOld(reset, create) ==
    /\ pc = "setup"
    /\ store' = store
    /\ store_failed' = (store_failed \/ reset = "raise" \/ create = "raise")
    /\ exists' = (exists \/ create = "ok")
    /\ IF create = "ok" \/ bot = "faq"
       THEN /\ pc' = IF bot = "faq" THEN "faq_ingest" ELSE "ingest"
            /\ UNCHANGED end_cause
       ELSE /\ pc' = "crashed"
            /\ end_cause' = "startup_error"
    /\ UNCHANGED <<bot, txt_file, uuid_count, pool_vars, faq_idx, ingest_result, turn_vars>>

\* setup_collection(): delete the class when the schema lists it (a failure
\* is logged and ignored), then create it. create_class fails when the class
\* is still there or the call itself fails: jfk lets that escape, faq logs it.
SetupCollection(reset, create) ==
    /\ pc = "setup"
    /\ LET deleted == reset = "ok" /\ exists
           there == exists /\ ~deleted
           created == create = "ok" /\ ~there
       IN  /\ store' = IF deleted THEN {} ELSE store
           /\ store_failed' = (store_failed \/ reset = "raise" \/ ~created)
           /\ exists' = (there \/ created)
           /\ IF created \/ bot = "faq"
              THEN /\ pc' = IF bot = "faq" THEN "faq_ingest" ELSE "ingest"
                   /\ UNCHANGED end_cause
              ELSE /\ pc' = "crashed"
                   /\ end_cause' = "startup_error"
    /\ UNCHANGED <<bot, txt_file, uuid_count, pool_vars, faq_idx, ingest_result, turn_vars>>

\* --------------------------------------------------------- jfk: ingest_docs
\* Mutant of ChunkObject: the index is not interpolated into chunk_id.
ChunkObject_FixedId(idx, chunk) == [text |-> chunk, chunk_id |-> <<"part2", 0>>]

\* Mutant of ChunkObject: the index is counted from 1.
ChunkObject_OneBased(idx, chunk) == [text |-> chunk, chunk_id |-> <<"part2", idx + 1>>]

\* The object _ingest_one builds for chunk idx (0-based).
ChunkObject(idx, chunk) == [text |-> chunk, chunk_id |-> <<"part2", idx>>]

\* Futures whose task has ended, with a result or with an exception.
Finished == {"DONE", "FAILED"}

\* A pool of max_workers threads runs at most max_workers tasks at a time.
PoolHasIdleThread == Cardinality(inflight) < workers

\* Mutant of AllSubmitted: the last chunk is never submitted.
AllSubmitted_OffByOne == submitted >= Len(chunks) - 1

\* enumerate(chunks) is exhausted: the dict of futures is complete.
AllSubmitted == submitted = Len(chunks)

\* Mutant of LoopBodyRaises: the loop body asks for future.result().
LoopBodyRaises_Result(future_state) == future_state = "FAILED"

\* The body of the as_completed loop is `pass`: the future's result() is never
\* asked for, so a task's exception is never raised in the main thread.
LoopBodyRaises(future_state) == FALSE

\* Mutant of CanLeavePool: shutdown(wait=False) and no as_completed loop.
CanLeavePool_NoJoin == TRUE

\* Leaving the `with ThreadPoolExecutor` block: the as_completed loop has
\* handed out every future and shutdown(wait=True) has joined the threads.
CanLeavePool ==
    /\ yielded = DOMAIN futures
    /\ queue = <<>>
    /\ inflight = {}

\* Mutant of FileExists: the test is missing and no file reads as no lines.
FileExists_Always(f) == TRUE

\* TXT_FILE.exists()
FileExists(f) == f.exists

\* What os.cpu_count() may return: a count below, at and above the cap of 32.
CpuCounts == (1..MaxCpu) \cup {MaxPoolThreads, 2 * MaxPoolThreads}

\* _read_chunks finds no file: the error is logged and sys.exit(1) is called.
IngestNoFile ==
    /\ pc = "ingest"
    /\ ~FileExists(txt_file)
    /\ pc' = "exited"
    /\ end_cause' = "sys_exit"
    /\ UNCHANGED <<bot, txt_file, store_failed, exists, store, uuid_count, pool_vars, faq_idx,
                   ingest_result, turn_vars>>

\* ingest_docs up to the creation of the pool.
IngestBegin(cpu) ==
    /\ pc = "ingest"
    /\ FileExists(txt_file)
    /\ chunks' = ReadChunks(txt_file.lines, CHARS_PER_CHUNK)
    /\ workers' = Min(MaxPoolThreads, cpu)
    /\ futures' = <<>>
    /\ insert_calls' = <<>>
    /\ submitted' = 0
    /\ yielded' = {}
    /\ pc' = "submit"
    /\ UNCHANGED <<bot, txt_file, store_failed, end_cause, exists, store, uuid_count, queue, inflight,
                   faq_idx, ingest_result, turn_vars>>

\* os.cpu_count() returns None (the count cannot be determined): the chunks
\* are read, min(32, None) raises TypeError and nothing in main() catches it.
IngestNoCpuCount ==
    /\ pc = "ingest"
    /\ FileExists(txt_file)
    /\ chunks' = ReadChunks(txt_file.lines, CHARS_PER_CHUNK)
    /\ pc' = "crashed"
    /\ end_cause' = "pool_size_error"
    /\ UNCHANGED <<bot, txt_file, store_failed, exists, store, uuid_count, workers, submitted,
                   futures, queue, inflight, yielded, insert_calls, faq_idx,
                   ingest_result, turn_vars>>

\* executor.submit(_ingest_one, client, idx, chunk) for the next chunk.
Submit ==
    /\ pc = "submit"
    /\ ~AllSubmitted
    /\ futures' = (submitted :> "PENDING") @@ futures
    /\ queue' = Append(queue, [idx |-> submitted, chunk |-> chunks[submitted + 1]])
    /\ submitted' = submitted + 1
    /\ UNCHANGED <<bot, txt_file, store_failed, pc, end_cause, exists, store, uuid_count, chunks, workers,
                   inflight, yielded, insert_calls, faq_idx, ingest_result,
                   turn_vars>>

\* Every chunk is submitted: the as_completed loop starts.
SubmitEnd ==
    /\ pc = "submit"
    /\ AllSubmitted
    /\ pc' = "wait"
    /\ UNCHANGED <<bot, txt_file, store_failed, end_cause, exists, store, uuid_count, pool_vars, faq_idx,
                   ingest_result, turn_vars>>

\* A pool thread takes the next work item and runs _ingest_one up to the
\* insert request: the object is built, uuid4() is drawn, the request is sent.
StartTask ==
    /\ queue # <<>>
    /\ PoolHasIdleThread
    /\ LET item == Head(queue)
       IN  /\ queue' = Tail(queue)
           /\ uuid_count' = uuid_count + 1
           /\ inflight' = inflight \cup
                {[idx |-> item.idx, uuid |-> uuid_count + 1,
                  obj |-> ChunkObject(item.idx, item.chunk)]}
           /\ futures' = [futures EXCEPT ![item.idx] = "RUNNING"]
           /\ insert_calls' =
                IF item.idx \in DOMAIN insert_calls
                THEN [insert_calls EXCEPT ![item.idx] = @ + 1]
                ELSE (item.idx :> 1) @@ insert_calls
    /\ UNCHANGED <<bot, txt_file, store_failed, pc, end_cause, exists, store, chunks, workers, submitted,
                   yielded, faq_idx, ingest_result, turn_vars>>

\* The insert request of a running task returns or raises; the exception is
\* kept in the task's future.
FinishTask(task, outcome) ==
    /\ task \in inflight
    /\ inflight' = inflight \ {task}
    /\ \/ /\ outcome = "ok"
          /\ store' = store \cup {[uuid |-> task.uuid, obj |-> task.obj]}
          /\ futures' = [futures EXCEPT ![task.idx] = "DONE"]
          /\ UNCHANGED store_failed
       \/ /\ outcome = "raise"
          /\ store' = store
          /\ futures' = [futures EXCEPT ![task.idx] = "FAILED"]
          /\ store_failed' = TRUE
    /\ UNCHANGED <<bot, txt_file, pc, end_cause, exists, uuid_count, chunks, workers,
                   submitted, queue, yielded, insert_calls, faq_idx,
                   ingest_result, turn_vars>>

\* as_completed hands out one more finished future and the loop body runs.
Yield(idx) ==
    /\ pc = "wait"
    /\ idx \in DOMAIN futures
    /\ idx \notin yielded
    /\ futures[idx] \in Finished
    /\ IF LoopBodyRaises(futures[idx])
       THEN /\ pc' = "crashed"
            /\ end_cause' = "ingest_error"
            /\ UNCHANGED yielded
       ELSE /\ yielded' = yielded \cup {idx}
            /\ UNCHANGED <<pc, end_cause>>
    /\ UNCHANGED <<bot, txt_file, store_failed, exists, store, uuid_count, chunks, workers, submitted,
                   futures, queue, inflight, insert_calls, faq_idx, ingest_result,
                   turn_vars>>

\* The `with` block is left; "All chunks ingested." is logged.
LeavePool ==
    /\ pc = "wait"
    /\ CanLeavePool
    /\ pc' = "settle"
    /\ UNCHANGED <<bot, txt_file, store_failed, end_cause, exists, store, uuid_count, pool_vars, faq_idx,
                   ingest_result, turn_vars>>

\* --------------------------------------------------------- faq: ingest_faqs
\* One pass of the loop of ingest_faqs: a fresh uuid, the insert request, and
\* a warning logged when it raises.
IngestFaq(outcome) ==
    /\ pc = "faq_ingest"
    /\ faq_idx <= Len(FAQ_DATA)
    /\ uuid_count' = uuid_count + 1
    /\ insert_calls' = (faq_idx :> 1) @@ insert_calls
    /\ \/ /\ outcome = "ok"
          /\ store' = store \cup {[uuid |-> uuid_count + 1, obj |-> FAQ_DATA[faq_idx]]}
          /\ exists' = TRUE
          /\ UNCHANGED store_failed
       \/ /\ outcome = "raise"
          /\ store_failed' = TRUE
          /\ UNCHANGED <<store, exists>>
    /\ faq_idx' = faq_idx + 1
    /\ UNCHANGED <<bot, txt_file, pc, end_cause, chunks, workers, submitted, futures, queue,
                   inflight, yielded, ingest_result, turn_vars>>

\* Mutant of IngestFaqEnd: the loop is left after any number of passes.
IngestFaqEnd_Early ==
    /\ pc = "faq_ingest"
    /\ pc' = "settle"
    /\ UNCHANGED <<bot, txt_file, store_failed, end_cause, exists, store, uuid_count, pool_vars,
                   faq_idx, ingest_result, turn_vars>>

\* The loop of ingest_faqs ends; "All FAQs ingested." is logged.
IngestFaqEnd ==
    /\ pc = "faq_ingest"
    /\ faq_idx > Len(FAQ_DATA)
    /\ pc' = "settle"
    /\ UNCHANGED <<bot, txt_file, store_failed, end_cause, exists, store, uuid_count, pool_vars, faq_idx,
                   ingest_result, turn_vars>>

\* Mutant of Settle: ingest_docs returns the indices of the failed inserts.
Settle_ReturnsFailures ==
    /\ pc = "settle"
    /\ pc' = "returned"
    /\ ingest_result' =
          LET failed == {i \in DOMAIN futures : futures[i] = "FAILED"}
          IN  IF failed = {} THEN None ELSE Some(failed)
    /\ UNCHANGED <<bot, txt_file, store_failed, end_cause, exists, store, uuid_count,
                   pool_vars, faq_idx, turn_vars>>

\* time.sleep(...), then ingest_docs / ingest_faqs returns: neither has a
\* return statement, so the caller gets None.
Settle ==
    /\ pc = "settle"
    /\ pc' = "returned"
    /\ ingest_result' = None
    /\ UNCHANGED <<bot, txt_file, store_failed, end_cause, exists, store, uuid_count, pool_vars, faq_idx,
                   turn_vars>>

\* main() logs "Ready!" and enters the loop; the locals of the ingestion call
\* are gone.
StartSession ==
    /\ pc = "returned"
    /\ pc' = "await"
    /\ chunks' = <<>>
    /\ workers' = 0
    /\ submitted' = 0
    /\ futures' = <<>>
    /\ yielded' = {}
    /\ insert_calls' = <<>>
    /\ UNCHANGED <<bot, txt_file, store_failed, end_cause, exists, store, uuid_count, queue, inflight,
                   faq_idx, ingest_result, turn_vars>>

\* ------------------------------------------------------------ session loop
\* Lines the user may type (input() has removed the line terminator):
\* "exit", " QUIT " , a question, an empty line, and a question that only
\* starts with an exit token.
InputLines ==
    { T("e", 1) \o T("x", 1) \o T("i", 1) \o T("t", 1),
      T(" ", 1) \o T("Q", 1) \o T("U", 1) \o T("I", 1) \o T("T", 1) \o T(" ", 1),
      T("a", 1),
      <<>>,
      T("e", 1) \o T("x", 1) \o T("i", 1) \o T("t", 1) \o T(" ", 1) \o T("a", 1) }

\* Message contents a successful completion call may carry: empty, blanks
\* only, and text with a blank before it.
Contents == { <<>>, T(" ", 1), T(" ", 1) \o T("a", 1) }

\* What the nearest-neighbour request may come back with: an exception (the
\* connection is lost, the body is no JSON), a status other than 200, or a
\* list of at most one object of the collection.
SearchResponses ==
    {<<"raise">>, <<"bad_status">>}
        \cup {<<"ok", docs>> : docs \in {<<>>} \cup {<<r.obj>> : r \in store}}

\* What a completion request may come back with: an exception (timeout,
\* quota, unknown model, a response without message content) or a message.
GenResponses == {<<"raise">>} \cup {<<"ok", c>> : c \in Contents}

\* Mutant of IsExit: the input is not lower-cased.
IsExit_NoLower(q) == q \in ExitTokens

\* user_q.lower() in {"exit", "quit"}
IsExit(q) == Lower(q) \in ExitTokens

\* semantic_search: [raised, value]. jfk catches every Exception of the
\* request (the client raises on a bad status too) and returns None; faq
\* catches nothing and returns None on a status other than 200.
SemanticSearch(b, resp) ==
    IF resp[1] = "ok"
    THEN [raised |-> FALSE, value |-> IF resp[2] # <<>> THEN Some(resp[2][1]) ELSE None]
    ELSE IF b = "jfk" \/ resp[1] = "bad_status"
         THEN [raised |-> FALSE, value |-> None]
         ELSE [raised |-> TRUE, value |-> None]

\* Mutant of FoundDocument: the test is inverted for a document.
FoundDocument_Never(value) == FALSE

\* `if not doc:` is not taken: semantic_search returned a document.
FoundDocument(value) == value # None

\* Mutant of NextModelIdx: a candidate is skipped.
NextModelIdx_Skip(i) == i + 2

\* The model generate_answer tries after the one at position i has failed.
NextModelIdx(i) == i + 1

\* Mutant of BuildPrompt: the jfk prompt takes the preview of the passage.
BuildPrompt_Preview(b, q, d) ==
    IF b = "faq" THEN <<q, d.question, d.answer>> ELSE <<q, Take(d.text, PreviewChars)>>

\* The prompt of generate_answer: the parts interpolated into the template.
BuildPrompt(b, q, d) ==
    IF b = "faq" THEN <<q, d.question, d.answer>> ELSE <<q, d.text>>

\* The "Closest passage" / "Closest FAQ" print.
PassageLine(b, d) ==
    IF b = "faq" THEN <<"passage", d.question, d.answer>>
                 ELSE <<"passage", d.chunk_id, Take(d.text, PreviewChars)>>

\* Mutant of AnswerLine: the returned value is printed without a test.
AnswerLine_NoTest(ans) == <<"answer", ans>>

\* The print after generate_answer returned `ans`.
AnswerLine(ans) == IF Truthy(ans) THEN <<"answer", ans[1]>> ELSE <<"notice">>

\* The log entry of a completion request.
GenCall(m, p, result) == [model |-> m, prompt |-> p, result |-> result]

\* Mutant of ReadLine: an empty line is skipped without a request.
ReadLine_SkipEmpty(line) ==
    /\ pc = "await"
    /\ line_in' = line
    /\ user_q' = Strip(line)
    /\ doc' = None
    /\ model_idx' = 0
    /\ prompt' = <<>>
    /\ answer' = None
    /\ gen_log' = <<>>
    /\ shown' = <<>>
    /\ IF IsExit(user_q')
       THEN /\ pc' = "terminated"
            /\ end_cause' = "exit_token"
            /\ search_log' = <<>>
       ELSE IF user_q' = <<>>
       THEN /\ pc' = "await"
            /\ UNCHANGED end_cause
            /\ search_log' = <<>>
       ELSE /\ pc' = "searching"
            /\ UNCHANGED end_cause
            /\ search_log' = <<[query |-> user_q', limit |-> 1,
                                result |-> <<"pending">>]>>
    /\ UNCHANGED <<bot, txt_file, store_failed, exists, store, uuid_count, pool_vars, faq_idx, ingest_result>>

\* input() returns `line`: an exit token ends the loop, anything else is
\* sent to the Vector Store as a nearest-neighbour request with limit 1.
ReadLine(line) ==
    /\ pc = "await"
    /\ line_in' = line
    /\ user_q' = Strip(line)
    /\ doc' = None
    /\ model_idx' = 0
    /\ prompt' = <<>>
    /\ answer' = None
    /\ gen_log' = <<>>
    /\ shown' = <<>>
    /\ IF IsExit(user_q')
       THEN /\ pc' = "terminated"
            /\ end_cause' = "exit_token"
            /\ search_log' = <<>>
       ELSE /\ pc' = "searching"
            /\ UNCHANGED end_cause
            /\ search_log' = <<[query |-> user_q', limit |-> 1,
                                result |-> <<"pending">>]>>
    /\ UNCHANGED <<bot, txt_file, store_failed, exists, store, uuid_count, pool_vars, faq_idx, ingest_result>>

\* input() raises EOFError or KeyboardInterrupt. jfk catches both and leaves
\* the loop; faq catches EOFError with its `except Exception` around the loop
\* and lets KeyboardInterrupt escape main().
InputEnds(signal) ==
    /\ pc = "await"
    /\ end_cause' = signal
    /\ pc' = IF bot = "faq" /\ signal = "interrupt" THEN "crashed" ELSE "terminated"
    /\ UNCHANGED <<bot, txt_file, store_failed, exists, store, uuid_count, pool_vars, faq_idx,
                   ingest_result, turn_vars>>

\* KeyboardInterrupt while a request is in flight: no handler of either
\* script catches it.
Interrupt ==
    /\ pc \in {"searching", "generating"}
    /\ pc' = "crashed"
    /\ end_cause' = "interrupt"
    /\ UNCHANGED <<bot, txt_file, store_failed, exists, store, uuid_count, pool_vars, faq_idx,
                   ingest_result, turn_vars>>

\* The nearest-neighbour request ends and the turn goes on up to the first
\* completion request: semantic_search returns or raises; without a document
\* the "couldn't find" line is printed and the loop continues; with one, the
\* passage is printed, generate_answer builds its prompt and calls the first
\* model. An exception of semantic_search (faq) is caught outside the loop:
\* "Error" is logged and main() ends.
SearchReturns(resp) ==
    /\ pc = "searching"
    /\ search_log' = [search_log EXCEPT ![1].result = resp]
    /\ LET r == SemanticSearch(bot, resp)
       IN  IF r.raised
           THEN /\ pc' = "terminated"
                /\ end_cause' = "turn_error"
                /\ UNCHANGED <<doc, model_idx, prompt, gen_log, shown>>
           ELSE /\ doc' = r.value
                /\ UNCHANGED end_cause
                /\ IF ~FoundDocument(r.value)
                   THEN /\ shown' = <<<<"nothing_found">>>>
                        /\ pc' = "await"
                        /\ UNCHANGED <<model_idx, prompt, gen_log>>
                   ELSE /\ shown' = <<PassageLine(bot, r.value[1])>>
                        /\ prompt' = BuildPrompt(bot, user_q, r.value[1])
                        /\ model_idx' = 1
                        /\ gen_log' = <<GenCall(Models(bot)[1], prompt', <<"pending">>)>>
                        /\ pc' = "generating"
    /\ UNCHANGED <<bot, txt_file, store_failed, exists, store, uuid_count, pool_vars, faq_idx,
                   ingest_result, line_in, user_q, answer>>

\* The completion request to Models(bot)[model_idx] ends. A message is
\* stripped and returned; an exception is logged and the next model, if any,
\* is called with the same prompt; after the last one None is returned. Once
\* generate_answer has returned, the answer or the notice is printed.
GenReturns(resp) ==
    /\ pc = "generating"
    /\ LET logged == [gen_log EXCEPT ![model_idx].result = resp]
       IN  IF resp[1] = "ok"
           THEN /\ answer' = Some(Strip(resp[2]))
                /\ gen_log' = logged
                /\ shown' = Append(shown, AnswerLine(answer'))
                /\ pc' = "await"
                /\ UNCHANGED model_idx
           ELSE IF NextModelIdx(model_idx) <= Len(Models(bot))
           THEN /\ model_idx' = NextModelIdx(model_idx)
                /\ gen_log' = Append(logged,
                                GenCall(Models(bot)[model_idx'], prompt, <<"pending">>))
                /\ UNCHANGED <<answer, shown, pc>>
           ELSE /\ answer' = None
                /\ gen_log' = logged
                /\ shown' = Append(shown, AnswerLine(answer'))
                /\ pc' = "await"
                /\ UNCHANGED model_idx
    /\ UNCHANGED <<bot, txt_file, store_failed, end_cause, exists, store, uuid_count, pool_vars, faq_idx,
                   ingest_result, line_in, user_q, doc, prompt, search_log>>

Next ==
    \/ \E o \in {"ready", "not_ready", "raise"} : Connect(o)
    \/ \E r \in {"ok", "raise"}, c \in {"ok", "raise"} : SetupCollection(r, c)
    \/ IngestNoFile
    \/ \E cpu \in CpuCounts : IngestBegin(cpu)
    \/ IngestNoCpuCount
    \/ Submit
    \/ SubmitEnd
    \/ StartTask
    \/ \E t \in inflight, o \in {"ok", "raise"} : FinishTask(t, o)
    \/ \E i \in DOMAIN futures : Yield(i)
    \/ LeavePool
    \/ \E o \in {"ok", "raise"} : IngestFaq(o)
    \/ IngestFaqEnd
    \/ Settle
    \/ StartSession
    \/ \E l \in InputLines : ReadLine(l)
    \/ \E sig \in {"eof", "interrupt"} : InputEnds(sig)
    \/ Interrupt
    \/ \E resp \in SearchResponses : SearchReturns(resp)
    \/ \E resp \in GenResponses : GenReturns(resp)

Spec == Init /\ [][Next]_vars

\* ------------------------------------------------- the chunker on its own
\* Lines of the texts _read_chunks is applied to: besides those of LinePool, a
\* line of blanks, a line of half the chunk size, a line of the chunk size
\* that starts with blanks, a line two characters over the chunk size and a
\* last line without a terminator.
BlankLine == T(" ", 2) \o NL
HalfLine == T("b", (CHARS_PER_CHUNK \div 2) - 1) \o NL
PaddedLine == T(" ", 2) \o T("a", CHARS_PER_CHUNK - 3) \o NL
HugeLine == T("a", CHARS_PER_CHUNK + 1) \o NL
LastLine == T("b", 1)
ChunkLinePool == LinePool \cup {BlankLine, HalfLine, PaddedLine, HugeLine, LastLine}

\* Iterating a text file yields lines that end with their terminator, except
\* possibly the last one.
Terminated(line) == line # <<>> /\ line[Len(line)][1] = "\n"
ChunkTexts ==
    {f \in SeqsUpTo(ChunkLinePool, MaxChunkLines) :
        \A i \in 1..(Len(f) - 1) : Terminated(f[i])}

RECURSIVE SplitAcc(_, _)
\* `for line in fh` over the characters `s`, `cur` being the line so far.
SplitAcc(s, cur) ==
    IF s = <<>>
    THEN IF cur = <<>> THEN <<>> ELSE <<cur>>
    ELSE IF s[1][1] = "\n"
         THEN <<Concat(cur, NL)>> \o [i \in 1..(s[1][2] - 1) |-> NL]
                \o SplitAcc(Tail(s), <<>>)
         ELSE SplitAcc(Tail(s), Concat(cur, <<s[1]>>))

\* The lines a file holding the text `s` is read as.
SplitLines(s) == SplitAcc(s, <<>>)

InitChunk ==
    /\ bot = "jfk"
    /\ txt_file \in {TextFile(f) : f \in ChunkTexts}
    /\ pc = "read"
    /\ end_cause = "none"
    /\ exists = FALSE
    /\ store = {}
    /\ store_failed = FALSE
    /\ uuid_count = 0
    /\ chunks = <<>>
    /\ workers = 0
    /\ submitted = 0
    /\ futures = <<>>
    /\ queue = <<>>
    /\ inflight = {}
    /\ yielded = {}
    /\ insert_calls = <<>>
    /\ faq_idx = 1
    /\ ingest_result = NotReturned
    /\ line_in = <<>>
    /\ user_q = <<>>
    /\ doc = None
    /\ model_idx = 0
    /\ prompt = <<>>
    /\ answer = None
    /\ search_log = <<>>
    /\ gen_log = <<>>
    /\ shown = <<>>

\* _read_chunks() on TXT_FILE.
Chunk ==
    /\ pc = "read"
    /\ FileExists(txt_file)
    /\ chunks' = ReadChunks(txt_file.lines, CHARS_PER_CHUNK)
    /\ pc' = "chunked"
    /\ UNCHANGED <<bot, txt_file, store_failed, end_cause, exists, store, uuid_count, workers,
                   submitted, futures, queue, inflight, yielded, insert_calls,
                   faq_idx, ingest_result, turn_vars>>

\* _read_chunks() on a file that holds the chunks of the first call, one
\* after the other.
Rechunk ==
    /\ pc = "chunked"
    /\ chunks' = ReadChunks(SplitLines(Join(chunks)), CHARS_PER_CHUNK)
    /\ pc' = "rechunked"
    /\ UNCHANGED <<bot, txt_file, store_failed, end_cause, exists, store, uuid_count, workers,
                   submitted, futures, queue, inflight, yielded, insert_calls,
                   faq_idx, ingest_result, turn_vars>>

NextChunk == Chunk \/ Rechunk

SpecChunk == InitChunk /\ [][NextChunk]_vars

\* ================================================================== claims
\* The last completion request of the turn.
LastCall == gen_log[Len(gen_log)]

\* generate_answer has returned in the turn whose display is complete.
TurnGenerated == pc = "await" /\ gen_log # <<>>

\* The completion requests of the turn follow the model list, one request
\* per position, and every request but the last one has failed.
CascadeInOrder ==
    /\ Len(gen_log) <= Len(Models(bot))
    /\ \A i \in 1..Len(gen_log) : gen_log[i].model = Models(bot)[i]
    /\ \A i \in 1..(Len(gen_log) - 1) : gen_log[i].result = <<"raise">>

\* Every candidate model was called and failed.
AllFailed ==
    /\ Len(gen_log) = Len(Models(bot))
    /\ \A i \in 1..Len(gen_log) : gen_log[i].result = <<"raise">>

\* C1 (as amended): generate_answer calls the candidate models strictly in
\* list order, each at most once, and makes no call after the first
\* successful one; it returns that candidate's message with leading and
\* trailing whitespace removed, and the session prints it as the answer when
\* it is not empty, and the "could not generate" notice when it is.
C1_Cascade ==
    /\ CascadeInOrder
    /\ (TurnGenerated /\ LastCall.result[1] = "ok") =>
          LET text == Strip(LastCall.result[2])
          IN  /\ answer = Some(text)
              /\ shown[Len(shown)] =
                    IF text # <<>> THEN <<"answer", text>> ELSE <<"notice">>

\* C1 witness: [A, B, C] with A and B failing and C succeeding.
C1_Witness ==
    /\ bot = "faq"
    /\ TurnGenerated
    /\ Len(gen_log) = 3
    /\ gen_log[1].result = <<"raise">>
    /\ gen_log[2].result = <<"raise">>
    /\ gen_log[3].model = "gpt-3.5-turbo"
    /\ gen_log[3].result = <<"ok", T(" ", 1) \o T("a", 1)>>
    /\ answer = Some(T("a", 1))
    /\ shown[2] = <<"answer", T("a", 1)>>

\* C1 as stated: the calls are in list order and stop at the first success,
\* generate returns the first successful candidate's output and the session
\* displays it.
C1_Original ==
    /\ CascadeInOrder
    /\ (TurnGenerated /\ LastCall.result[1] = "ok") =>
          /\ answer = Some(LastCall.result[2])
          /\ shown[Len(shown)] = <<"answer", LastCall.result[2]>>

\* The passage print of the turn, written out: the faq bot prints the
\* question and the answer of the entry, the jfk bot the chunk_id and the
\* first 300 characters of the text.
ShownPassage(d) ==
    IF bot = "faq" THEN <<"passage", d.question, d.answer>>
                   ELSE <<"passage", d.chunk_id, Take(d.text, 300)>>

SessionStarted == ingest_result = None /\ pc \notin {"settle", "returned"}

\* C3 as stated: once the session loop runs, main() ends only through an exit
\* token, end of input or an interrupt; a failed retrieval or generation call
\* never ends it.
C3_Original ==
    (SessionStarted /\ pc \in {"terminated", "crashed"}) =>
        end_cause \in {"exit_token", "eof", "interrupt"}

\* A step in which input() returns a line.
ReadsLine == pc = "await" /\ end_cause' \notin {"eof", "interrupt"}

\* C4: an input line that is "exit" or "quit" after trimming and lower-casing
\* ends the loop with no retrieval and no generation request for it, and
\* nothing happens once main() has ended.
C4_ExitToken ==
    /\ [][(ReadsLine /\ Lower(Strip(line_in')) \in ExitTokens) =>
             /\ pc' = "terminated"
             /\ search_log' = <<>>
             /\ gen_log' = <<>>]_vars
    /\ [][(pc = "terminated") => UNCHANGED vars]_vars

\* C4 witness: " QUIT " has ended the session.
C4_Witness ==
    /\ pc = "terminated"
    /\ end_cause = "exit_token"
    /\ line_in = T(" ", 1) \o T("Q", 1) \o T("U", 1) \o T("I", 1) \o T("T", 1) \o T(" ", 1)
    /\ search_log = <<>>

\* The nearest-neighbour request of the turn came back without a match: the
\* request failed or the list of objects is empty.
SearchCameBackEmpty ==
    /\ search_log # <<>>
    /\ search_log[1].result \in {<<"raise">>, <<"bad_status">>, <<"ok", <<>>>>}

\* C5 as stated: semantic_search returns None and raises nothing whenever the
\* request fails or returns no match, in both bots.
C5_Original ==
    SearchCameBackEmpty => (doc = None /\ end_cause # "turn_error")

\* C6: in a turn where semantic_search returns None the "couldn't find" line
\* is printed, no completion request is made and the session is back at the
\* input prompt; the line is printed in no other turn.
C6_NothingFound ==
    /\ [][(pc = "searching" /\ search_log' # search_log /\ doc' = None
             /\ end_cause' = end_cause) =>
             /\ pc' = "await"
             /\ shown' = << <<"nothing_found">> >>
             /\ gen_log' = <<>>]_vars
    /\ [](\A i \in 1..Len(shown) :
             shown[i] = <<"nothing_found">> =>
                /\ doc = None
                /\ search_log # <<>>
                /\ search_log[1].result # <<"pending">>
                /\ gen_log = <<>>)

\* C6 witness: the jfk request failed and the turn printed the line.
C6_Witness ==
    /\ bot = "jfk"
    /\ pc = "await"
    /\ search_log # <<>>
    /\ search_log[1].result = <<"raise">>
    /\ doc = None
    /\ shown = << <<"nothing_found">> >>

\* The items of the ingestion run: chunk indices (jfk), FAQ positions (faq).
ItemIds == IF bot = "faq" THEN 1..Len(FAQ_DATA) ELSE 0..(Len(chunks) - 1)

IngestPcs == {"submit", "wait", "faq_ingest", "settle"}

\* C7: whichever insert requests fail, every item's insert is requested
\* exactly once, the ingestion is never left by an exception and never gets
\* stuck: it goes on to its normal return.
C7_EveryInsertOnce ==
    /\ [](\A i \in DOMAIN insert_calls : insert_calls[i] = 1)
    /\ [](pc \in {"settle", "returned"} => DOMAIN insert_calls = ItemIds)
    /\ [][(pc \in IngestPcs) => (pc' \in (IngestPcs \cup {"returned"}))]_vars
    /\ [](pc \in IngestPcs => ENABLED Next)

\* C7 witness: three chunks, the first and the last insert failed, the second
\* one succeeded, and ingest_docs is about to return.
C7_Witness ==
    /\ bot = "jfk"
    /\ pc = "settle"
    /\ Len(chunks) = 3
    /\ futures[0] = "FAILED"
    /\ futures[1] = "DONE"
    /\ futures[2] = "FAILED"
    /\ \A i \in 0..2 : insert_calls[i] = 1

\* Exactly the odd-indexed inserts of the jfk run failed.
OddInsertsFailed ==
    /\ bot = "jfk"
    /\ DOMAIN futures = 0..(Len(chunks) - 1)
    /\ \A i \in DOMAIN futures : futures[i] = IF i % 2 = 1 THEN "FAILED" ELSE "DONE"

EvenIds == {i \in 0..(Len(chunks) - 1) : i % 2 = 0}

C9_AllSucceed ==
    (bot = "jfk" /\ pc \in {"settle", "returned"}
       /\ \A i \in DOMAIN futures : futures[i] # "FAILED") =>
        /\ DOMAIN futures = 0..(Len(chunks) - 1)
        /\ \A i \in DOMAIN futures : futures[i] = "DONE"
        /\ Cardinality(store) = Len(chunks)
        /\ \A i \in 0..(Len(chunks) - 1) :
              Cardinality({r \in store :
                  r.obj = [text |-> chunks[i + 1], chunk_id |-> <<"part2", i>>]}) = 1

\* C9 witness: three chunks ingested by a pool of two threads, all stored.
C9_Witness ==
    /\ bot = "jfk"
    /\ pc = "settle"
    /\ workers = 2
    /\ Len(chunks) = 3
    /\ \A i \in 0..2 : futures[i] = "DONE"
    /\ Cardinality(store) = 3

\* C10: once ingest_docs is past its `with` block, no insert task is waiting
\* or running, and at its return every submitted task has finished.
C10_Join ==
    /\ pc \notin {"submit", "wait"} => (queue = <<>> /\ inflight = {})
    /\ pc \in {"settle", "returned"} =>
          \A i \in DOMAIN futures : futures[i] \in Finished

\* C10 witness: ingest_docs has returned from a run of three tasks on one
\* thread, of which one failed.
C10_Witness ==
    /\ bot = "jfk"
    /\ pc = "returned"
    /\ workers = 1
    /\ Len(chunks) = 3
    /\ futures[0] = "DONE"
    /\ futures[1] = "DONE"
    /\ futures[2] = "FAILED"

\* ------------------------------------------------------ claims on the chunker
RECURSIVE SumLen(_)
\* sum(len(c) for c in cs)
SumLen(cs) == IF cs = <<>> THEN 0 ELSE StrLen(cs[1]) + SumLen(Tail(cs))

\* The characters of s that are not whitespace, in their order.
NonWs(s) == Join([i \in 1..Len(s) |->
                    IF s[i][1] \in Whitespace THEN <<>> ELSE <<s[i]>>])

\* The lines _read_chunks was given, and what it returns for them.
TextLines == txt_file.lines
FirstChunks == ReadChunks(txt_file.lines, CHARS_PER_CHUNK)

\* C11: every chunk _read_chunks emits is at most CHARS_PER_CHUNK characters
\* long, except a chunk that is one line of the file which is itself longer.
C11_Bounded ==
    pc = "chunked" =>
        \A i \in 1..Len(chunks) :
            \/ StrLen(chunks[i]) <= CHARS_PER_CHUNK
            \/ \E j \in 1..Len(TextLines) :
                  /\ StrLen(TextLines[j]) > CHARS_PER_CHUNK
                  /\ chunks[i] = Strip(TextLines[j])

\* C11 witness: a buffer of two lines sealed at one character under the
\* limit, followed by a chunk that is a single line over the limit.
C11_Witness ==
    /\ pc = "chunked"
    /\ TextLines = <<HalfLine, HalfLine, HugeLine>>
    /\ Len(chunks) = 2
    /\ StrLen(chunks[1]) = CHARS_PER_CHUNK - 1
    /\ StrLen(chunks[2]) = CHARS_PER_CHUNK + 1

\* C12 (as amended): the chunks hold, in the order of the text, exactly its
\* characters that are not whitespace, so the sum of their lengths is at
\* least the number of those characters; whitespace is lost around every
\* chunk and inside blank lines.
C12_NoContentLost ==
    pc = "chunked" =>
        /\ NonWs(Join(chunks)) = NonWs(Join(TextLines))
        /\ SumLen(chunks) >= StrLen(NonWs(Join(TextLines)))

\* C12 witness: two lines of CHARS_PER_CHUNK characters make two chunks whose
\* lengths add up to one less than the length of the stripped text.
C12_Witness ==
    /\ pc = "chunked"
    /\ TextLines = <<FullLine, FullLine>>
    /\ SumLen(chunks) = 2 * (CHARS_PER_CHUNK - 1)
    /\ StrLen(Strip(Join(TextLines))) = 2 * CHARS_PER_CHUNK - 1

\* C12 as stated: the lengths of the chunks add up to at least the length of
\* the text with leading and trailing whitespace stripped.
C12_Original ==
    pc = "chunked" => SumLen(chunks) >= StrLen(Strip(Join(TextLines)))

\* C13 (as amended): chunking the concatenation of the chunks loses no
\* character that is not whitespace, and gives the same chunks again when the
\* first output is a single non-empty chunk of at most CHARS_PER_CHUNK
\* characters; in general the sequence of chunks is not reproduced.
C13_Rechunk ==
    pc = "rechunked" =>
        /\ NonWs(Join(chunks)) = NonWs(Join(TextLines))
        /\ (/\ Len(FirstChunks) = 1
            /\ FirstChunks[1] # <<>>
            /\ StrLen(FirstChunks[1]) <= CHARS_PER_CHUNK) => chunks = FirstChunks

\* C13 witness: a text of three short lines, one of them blank, is one chunk
\* and is chunked to itself.
C13_Witness ==
    /\ pc = "rechunked"
    /\ TextLines = <<ShortLine, BlankLine, LastLine>>
    /\ Len(chunks) = 1
    /\ chunks = FirstChunks
    /\ StrLen(chunks[1]) = 4

\* C13 as stated: chunking the concatenation of the chunks gives the same
\* sequence of chunks.
C13_Original == pc = "rechunked" => chunks = FirstChunks

\* A line longer than max_chars (a blank line counts as its terminator).
Oversized(line) == StrLen(NormaliseLine(line)) > CHARS_PER_CHUNK

\* The chunks of the lines before line j, line j as a chunk of its own, and
\* the chunks of the lines after it.
AroundLine(j) ==
    ReadChunks(SubSeq(TextLines, 1, j - 1), CHARS_PER_CHUNK)
        \o <<Strip(TextLines[j])>>
        \o ReadChunks(SubSeq(TextLines, j + 1, Len(TextLines)), CHARS_PER_CHUNK)

\* Line j is the only line of the text longer than max_chars.
OnlyOversized(j) ==
    \A k \in 1..Len(TextLines) : Oversized(TextLines[k]) <=> k = j

\* C14 as stated: a single line longer than max_chars is a chunk of its own,
\* wherever it is, the first line included, and the chunks are those of the
\* lines before it, the line, and those of the lines after it.
C14_Original ==
    pc = "chunked" =>
        \A j \in 1..Len(TextLines) : OnlyOversized(j) => chunks = AroundLine(j)

\* C14 holds of an oversized line that is not the first line of the file.
C14_NotFirst ==
    pc = "chunked" =>
        \A j \in 2..Len(TextLines) : OnlyOversized(j) => chunks = AroundLine(j)

\* C14: the file whose first line is oversized has an empty first chunk.
C14_EmptyFirstChunk ==
    (pc = "chunked" /\ TextLines # <<>> /\ Oversized(TextLines[1])) =>
        (chunks[1] = <<>> /\ chunks[2] = Strip(TextLines[1]))

\* ------------------------------------------- claims on ingestion and session
\* ingest_docs has read the chunks of an empty TXT_FILE and made its pool.
EmptyFileRead ==
    /\ bot = "jfk"
    /\ txt_file = [exists |-> TRUE, lines |-> <<>>]
    /\ pc \in {"submit", "wait", "settle", "returned"}

\* C15: for a TXT_FILE without lines _read_chunks returns no chunk, and
\* ingest_docs, once its pool is made, submits no task, requests no insert and
\* goes on to its normal return.
C15_EmptyInput ==
    /\ [](EmptyFileRead =>
            /\ chunks = <<>>
            /\ futures = <<>>
            /\ queue = <<>>
            /\ inflight = {}
            /\ insert_calls = <<>>
            /\ uuid_count = 0
            /\ store = {}
            /\ end_cause = "none")
    /\ [][(EmptyFileRead /\ pc # "returned") =>
            (pc' \in {"wait", "settle", "returned"})]_vars
    /\ [](EmptyFileRead => ENABLED Next)

\* C15 witness: ingest_docs has returned for the empty file.
C15_Witness ==
    /\ EmptyFileRead
    /\ pc = "returned"
    /\ ingest_result = None
    /\ chunks = <<>>
    /\ workers = 2

\* The jfk bot runs and TXT_FILE does not exist.
SourceMissing == bot = "jfk" /\ txt_file = [exists |-> FALSE, lines |-> <<>>]

\* C16: when TXT_FILE does not exist, _read_chunks ends the program with
\* sys.exit(1) instead of returning no chunks: no task is submitted, no insert
\* is requested and main() never reaches its input loop.
C16_SourceMissing ==
    /\ [](SourceMissing =>
            /\ pc \in {"connect", "setup", "ingest", "exited", "crashed"}
            /\ chunks = <<>>
            /\ futures = <<>>
            /\ insert_calls = <<>>
            /\ uuid_count = 0
            /\ ingest_result = NotReturned
            /\ search_log = <<>>)
    /\ [][(SourceMissing /\ pc = "ingest") =>
            /\ pc' = "exited"
            /\ end_cause' = "sys_exit"
            /\ store' = store]_vars
    /\ []((SourceMissing /\ pc = "ingest") => ENABLED Next)

\* C16 witness: the collection was created, the file is missing, and the
\* program has exited from _read_chunks.
C16_Witness ==
    /\ SourceMissing
    /\ pc = "exited"
    /\ end_cause = "sys_exit"
    /\ exists

\* C17 as stated: the passage semantic_search returns has a non-empty text
\* (jfk) or answer (faq).
C17_Original ==
    doc # None =>
        IF bot = "faq" THEN doc[1].answer # "" ELSE doc[1].text # <<>>

\* C17 holds of the faq bot.
C17_Faq == (bot = "faq" /\ doc # None) => doc[1].answer # ""

\* The lengths of the chunks.
ChunkLens == [i \in 1..Len(chunks) |-> StrLen(chunks[i])]

\* ingest_docs has read the chunks of TXT_FILE and made its pool.
ChunksRead == bot = "jfk" /\ pc \in {"submit", "wait", "settle", "returned"}

\* C18 (as amended): a paragraph of 9000 characters written as nine lines of
\* 1000 characters makes exactly 3 chunks (of 3999, 3999 and 999 characters),
\* the number of chunks depending on the line lengths (four lines of 2001
\* characters and one of 996 make 4); ingest_docs requests the insert of each
\* chunk exactly once.
C18_Paragraph ==
    ChunksRead =>
        /\ txt_file.lines = NineLines =>
              ChunkLens = <<CHARS_PER_CHUNK - 1, CHARS_PER_CHUNK - 1, 999>>
        /\ txt_file.lines = UnevenLines => Len(chunks) = 4
        /\ txt_file.lines \in Paragraphs =>
              /\ \A i \in DOMAIN insert_calls : insert_calls[i] = 1
              /\ pc \in {"settle", "returned"} =>
                    DOMAIN insert_calls = 0..(Len(chunks) - 1)

\* C18 witness: the nine-line paragraph was chunked into three and the three
\* inserts were requested once each and succeeded.
C18_Witness ==
    /\ ChunksRead
    /\ pc = "settle"
    /\ txt_file.lines = NineLines
    /\ Len(chunks) = 3
    /\ \A i \in 0..2 : insert_calls[i] = 1 /\ futures[i] = "DONE"
    /\ Cardinality(store) = 3

\* C18 as stated: a paragraph of 9000 characters makes exactly 3 chunks and
\* each of them is inserted once.
C18_Original ==
    (ChunksRead /\ txt_file.lines \in Paragraphs) =>
        /\ Len(chunks) = 3
        /\ pc \in {"settle", "returned"} =>
              \A i \in 0..2 : i \in DOMAIN insert_calls /\ insert_calls[i] = 1

\* C19 as stated: the inserts in flight never outnumber the pool size, and
\* the pool size min(32, os.cpu_count()) is always an integer from 1 to 32.
C19_Original ==
    /\ Cardinality(inflight) <= workers
    /\ pc \in {"submit", "wait"} => workers \in 1..32
    /\ end_cause # "pool_size_error"

\* C19 holds of a run in which os.cpu_count() returns a count.
C19_PoolBound ==
    /\ Cardinality(inflight) <= workers
    /\ pc \in {"submit", "wait"} => workers \in 1..32

\* The stages of main(), in program order.
Stage(p) ==
    CASE p \in {"connect"} -> 0
      [] p \in {"setup"} -> 1
      [] p \in {"ingest", "submit", "wait", "faq_ingest"} -> 2
      [] p \in {"settle"} -> 3
      [] p \in {"returned"} -> 4
      [] p \in {"await", "searching", "generating"} -> 5
      [] OTHER -> 6

\* C20: main() goes through ingestion once, before its input loop and never
\* again; insert requests are made during ingestion only; and when a
\* nearest-neighbour request is issued, every item's insert has been requested
\* and has ended and the sleep after the ingestion is over.
C20_IngestThenQuery ==
    /\ [][Stage(pc') >= Stage(pc)]_vars
    /\ [][(Stage(pc') = 5 /\ Stage(pc) # 5) => (pc = "returned" /\ pc' = "await")]_vars
    /\ [][(pc' = "returned" /\ pc # "returned") =>
            /\ pc = "settle"
            /\ DOMAIN insert_calls = ItemIds
            /\ \A i \in DOMAIN futures : futures[i] \in {"DONE", "FAILED"}]_vars
    /\ [][uuid_count' # uuid_count => Stage(pc) = 2]_vars
    /\ [][store' # store => Stage(pc) \in {1, 2}]_vars
    /\ [](search_log # <<>> =>
            /\ ingest_result = None
            /\ queue = <<>>
            /\ inflight = {})

\* C20 witness: the first question is at the Vector Store after a jfk
\* ingestion of three chunks.
C20_Witness ==
    /\ bot = "jfk"
    /\ pc = "searching"
    /\ search_log # <<>>
    /\ ingest_result = None
    /\ Cardinality(store) = 3

\* The turn has printed all it prints: the "couldn't find" line alone, or the
\* passage followed by the answer or the notice.
TurnDisplayed ==
    IF doc = None
    THEN shown = << <<"nothing_found">> >>
    ELSE /\ Len(shown) = 2
         /\ shown[1][1] = "passage"
         /\ shown[2][1] \in {"answer", "notice"}

\* C21 as stated: an interrupt or end of input ends the session only while
\* it waits for input, and then without an uncaught error; no retrieval or
\* generation request is cut short by it.
C21_Original ==
    end_cause \in {"interrupt", "eof"} =>
        /\ pc = "terminated"
        /\ \A i \in 1..Len(search_log) : search_log[i].result # <<"pending">>
        /\ \A i \in 1..Len(gen_log) : gen_log[i].result # <<"pending">>

\* C21 holds of the jfk bot while it waits for input, and of end of input in
\* both bots.
C21_AtPrompt ==
    [][(pc = "await" /\ end_cause' \in {"interrupt", "eof"}
          /\ (bot = "jfk" \/ end_cause' = "eof")) => pc' = "terminated"]_vars

\* C22: every input line that is not an exit token, the empty line included,
\* starts a turn with one nearest-neighbour request of limit 1 for the
\* stripped line; completion requests are made only after that request has
\* returned a document, and after the passage is printed; and a line is read
\* only when the turn before it has printed all it prints.
C22_Sequential ==
    /\ [][(ReadsLine /\ Lower(Strip(line_in')) \notin ExitTokens) =>
            /\ pc' = "searching"
            /\ search_log' = <<[query |-> Strip(line_in'), limit |-> 1,
                                result |-> <<"pending">>]>>
            /\ gen_log' = <<>>
            /\ shown' = <<>>]_vars
    /\ [][ReadsLine => (search_log = <<>> \/ TurnDisplayed)]_vars
    /\ [][(gen_log = <<>> /\ gen_log' # <<>>) =>
            /\ pc = "searching"
            /\ search_log'[1].result[1] = "ok"
            /\ search_log'[1].result[2] # <<>>
            /\ doc' = Some(search_log'[1].result[2][1])
            /\ Len(shown') = 1]_vars
    /\ [][(pc = "generating" /\ pc' = "await") => TurnDisplayed']_vars
    /\ [](Len(search_log) <= 1)
    /\ [](pc = "searching" => (gen_log = <<>> /\ shown = <<>>))
    /\ [](pc = "generating" => (Len(shown) = 1 /\ search_log[1].result[1] = "ok"))
    /\ [](pc = "await" => (search_log = <<>> \/ TurnDisplayed))

\* C22 witness: the turn of an empty input line has retrieved a document,
\* called generate_answer and printed the passage and the answer.
C22_Witness ==
    /\ pc = "await"
    /\ line_in = <<>>
    /\ doc # None
    /\ search_log = <<[query |-> <<>>, limit |-> 1, result |-> <<"ok", <<doc[1]>>>>]>>
    /\ gen_log # <<>>
    /\ Len(shown) = 2
    /\ shown[2][1] = "answer"

\* ---------------------------------------------- more claims on the chunker
\* A line as the chunker counts it: a blank line is one terminator.
Counted(line) == IF Strip(line) = <<>> THEN << <<"\n", 1>> >> ELSE line

RECURSIVE CountedLen(_, _)
\* The length of lines a+1 .. b of the text, as counted.
CountedLen(a, b) ==
    IF b <= a THEN 0 ELSE CountedLen(a, b - 1) + StrLen(Counted(TextLines[b]))

\* The text of lines a+1 .. b, as counted, trimmed.
Trimmed(a, b) == Strip(Join([k \in 1..(b - a) |-> Counted(TextLines[a + k])]))

\* With boundaries B (a boundary j lies between line j and line j+1), the
\* line after which the buffer that holds line j starts.
BufferStart(B, j) ==
    LET before == {c \in B : c < j}
    IN  IF before = {} THEN 0 ELSE CHOOSE c \in before : \A d \in before : d <= c

RECURSIVE Ascending(_)
\* The elements of a set of numbers, in ascending order.
Ascending(S) ==
    IF S = {} THEN <<>>
    ELSE LET m == CHOOSE x \in S : \A y \in S : x <= y
         IN  <<m>> \o Ascending(S \ {m})

\* The chunks that the boundaries B make of the text.
ChunksOf(B) ==
    LET n == Len(TextLines)
        ends == Ascending(B \cup (IF n > 0 THEN {n} ELSE {}))
    IN  [i \in 1..Len(ends) |->
            Trimmed(IF i = 1 THEN 0 ELSE ends[i - 1], ends[i])]

\* C23: the chunk boundaries are exactly the places where the buffer plus the
\* next line would be longer than max_chars: there is a boundary before a
\* line if and only if the untrimmed length of the buffer so far plus the
\* length of that line exceeds max_chars, and the chunks are the trimmed
\* texts of the buffers between those boundaries.
C23_SealRule ==
    pc = "chunked" =>
        \E B \in SUBSET (0..(Len(TextLines) - 1)) :
            /\ \A j \in 0..(Len(TextLines) - 1) :
                  j \in B <=>
                    CountedLen(BufferStart(B, j), j)
                        + StrLen(Counted(TextLines[j + 1])) > CHARS_PER_CHUNK
            /\ chunks = ChunksOf(B)

\* C23 witness: two lines fill the buffer to exactly max_chars, and the blank
\* line after them, counted as one character, does not fit and starts the
\* second buffer.
C23_Witness ==
    /\ pc = "chunked"
    /\ TextLines = <<HalfLine, HalfLine, BlankLine>>
    /\ Len(chunks) = 2
    /\ StrLen(chunks[1]) = CHARS_PER_CHUNK - 1
    /\ chunks[2] = <<>>

\* C24 as stated: every chunk _read_chunks emits has a non-empty text.
C24_Original == pc = "chunked" => \A i \in 1..Len(chunks) : chunks[i] # <<>>

\* A line, trimmed, is not empty.
NotBlank(line) == line # <<>>

\* The non-blank lines of a sequence of lines, each trimmed.
Contentful(ls) == SelectSeq([i \in 1..Len(ls) |-> Strip(ls[i])], NotBlank)

RECURSIVE LinesOfChunks(_)
\* The lines of the chunks, chunk after chunk.
LinesOfChunks(cs) ==
    IF cs = <<>> THEN <<>> ELSE SplitLines(cs[1]) \o LinesOfChunks(Tail(cs))

\* C28: the non-blank lines of the chunks, read chunk after chunk, are the
\* non-blank lines of the text, each once and in the order of the text, with
\* the same characters between their leading and trailing whitespace.
C28_LinesKept ==
    pc = "chunked" => Contentful(LinesOfChunks(chunks)) = Contentful(TextLines)

\* C28 witness: three lines that each make a chunk of their own.
C28_Witness ==
    /\ pc = "chunked"
    /\ TextLines = <<ShortLine, FullLine, LastLine>>
    /\ chunks = << T("a", 1), T("a", CHARS_PER_CHUNK - 1), T("b", 1) >>

\* ------------------------------------- claims on records, prompt and display
\* C25: the object of every insert request, in flight or stored, is the text
\* of a chunk together with the chunk_id made of that chunk's 0-based
\* position, it is stored only when that chunk's task is done, and no two
\* stored records carry the same chunk_id, whatever the order in which the
\* pool threads run.
C25_ChunkIds ==
    (bot = "jfk" /\ pc \in {"submit", "wait", "settle", "returned"}) =>
        /\ \A r \in store \cup inflight :
              \E i \in 0..(Len(chunks) - 1) :
                  r.obj = [text |-> chunks[i + 1], chunk_id |-> <<"part2", i>>]
        /\ \A r \in store : futures[r.obj.chunk_id[2]] = "DONE"
        /\ \A r1, r2 \in store : r1.obj.chunk_id = r2.obj.chunk_id => r1 = r2

\* C25 witness: with two pool threads, chunks 1 and 2 are stored while the
\* insert of chunk 0 is still in flight.
C25_Witness ==
    /\ bot = "jfk"
    /\ pc = "wait"
    /\ workers = 2
    /\ Len(chunks) = 3
    /\ futures[0] = "RUNNING"
    /\ {r.obj.chunk_id : r \in store} = {<<"part2", 1>>, <<"part2", 2>>}

\* C26: every completion request of a turn carries the same prompt, made of
\* the stripped input line and the whole text of the passage (jfk) or the
\* question and the answer of the entry (faq) as the nearest-neighbour request
\* returned them.
C26_PromptVerbatim ==
    gen_log # <<>> =>
        LET d == search_log[1].result[2][1]
        IN  /\ user_q = Strip(line_in)
            /\ \A i \in 1..Len(gen_log) :
                  gen_log[i].prompt =
                      IF bot = "faq" THEN <<user_q, d.question, d.answer>>
                                     ELSE <<user_q, d.text>>

\* C26 witness: the jfk bot printed the first 300 characters of a passage of
\* 3999 and sent all of it in the prompt.
C26_Witness ==
    /\ bot = "jfk"
    /\ gen_log # <<>>
    /\ StrLen(shown[1][3]) = 300
    /\ StrLen(gen_log[1].prompt[2]) = CHARS_PER_CHUNK - 1

\* C27 (as amended): the "could not generate" notice is printed in a turn
\* only if every candidate model failed or the successful response is empty
\* once stripped, and in that last case it is always printed; an answer that
\* is printed is the stripped, non-empty text of the successful response.
C27_Notice ==
    /\ \A i \in 1..Len(shown) :
          shown[i] = <<"notice">> =>
              /\ gen_log # <<>>
              /\ \/ AllFailed
                 \/ /\ LastCall.result[1] = "ok"
                    /\ Strip(LastCall.result[2]) = <<>>
    /\ \A i \in 1..Len(shown) :
          shown[i][1] = "answer" =>
              /\ gen_log # <<>>
              /\ LastCall.result[1] = "ok"
              /\ shown[i][2] = Strip(LastCall.result[2])
              /\ shown[i][2] # <<>>
    /\ (pc = "await" /\ gen_log # <<>> /\ LastCall.result = <<"ok", T(" ", 1)>>) =>
          shown[Len(shown)] = <<"notice">>

\* C27 witness: the first model failed, the second returned a blank, and the
\* notice was printed.
C27_Witness ==
    /\ bot = "faq"
    /\ pc = "await"
    /\ Len(gen_log) = 2
    /\ gen_log[1].result = <<"raise">>
    /\ gen_log[2].result = <<"ok", T(" ", 1)>>
    /\ shown[2] = <<"notice">>

\* C27 as stated: the notice is printed only if every candidate model failed.
C27_Original ==
    \A i \in 1..Len(shown) : shown[i] = <<"notice">> => AllFailed

\* C29: no failed insert makes ingest_docs raise; it returns None whether
\* inserts failed or not, main() goes on to its input loop, and once there
\* nothing of the ingestion is left in the program.
C29_NoRecord ==
    /\ [][(bot = "jfk" /\ pc \in {"submit", "wait", "settle"}) =>
            /\ pc' \in {"submit", "wait", "settle", "returned"}
            /\ end_cause' = "none"]_vars
    /\ [][(bot = "jfk" /\ pc = "returned") => pc' = "await"]_vars
    /\ []((bot = "jfk" /\ pc = "returned") => ingest_result = None)
    /\ []((bot = "jfk" /\ Stage(pc) = 5) =>
            /\ ingest_result = None
            /\ futures = <<>>
            /\ chunks = <<>>)
    /\ []((bot = "jfk" /\ pc \in {"wait", "settle", "returned"}) => ENABLED Next)

\* C29 witness: three inserts were requested, all failed, and the jfk bot
\* waits for input.
C29_Witness ==
    /\ bot = "jfk"
    /\ pc = "await"
    /\ uuid_count = 3
    /\ store = {}
    /\ store_failed
    /\ ingest_result = None

\* The object the run inserts for item i.
ItemObject(i) ==
    IF bot = "faq" THEN FAQ_DATA[i]
                   ELSE [text |-> chunks[i + 1], chunk_id |-> <<"part2", i>>]

\* C30: when no setup or insert call has failed, the collection holds at the
\* end of the ingestion one record per item of this run and nothing else,
\* whatever it held before, each under an identifier of its own drawn in this
\* run; setup_collection empties a collection that exists; and a step changes
\* the collection only by emptying it or by adding one record under an
\* identifier not yet in it.
C30_FreshCollection ==
    /\ []((pc \in {"settle", "returned"} /\ ~store_failed) =>
            /\ Cardinality(store) = Cardinality(ItemIds)
            /\ \A i \in ItemIds :
                  Cardinality({r \in store : r.obj = ItemObject(i)}) = 1
            /\ \A r \in store : r.uuid \in 1..uuid_count
            /\ \A r1, r2 \in store : r1.uuid = r2.uuid => r1 = r2)
    /\ [][(pc = "setup" /\ exists /\ ~store_failed') => (store' = {} /\ exists')]_vars
    /\ [][\/ store' = store
          \/ store' = {}
          \/ \E r \in store' \ store :
                /\ store' = store \cup {r}
                /\ \A x \in store : x.uuid # r.uuid]_vars

\* C30 witness: the faq run has ended without a failed call and the
\* collection holds the five entries.
C30_Witness ==
    /\ bot = "faq"
    /\ pc = "returned"
    /\ ~store_failed
    /\ Cardinality(store) = 5
    /\ \A r \in store : r.uuid \in 1..5

====
